---- MODULE Spec2Model ----
(***************************************************************************)
(* Model of the looping cinematic animation: the Animation Driver and the  *)
(* Frame Renderer (src/app/components/CinematicCanvas.tsx) and the         *)
(* Timeline Overlay (src/app/components/HudOverlay.tsx), together with the *)
(* parts of the host they use: the window's list of animation frame        *)
(* callbacks, its resize listeners, its clock and the canvas element.      *)
(*                                                                         *)
(* Units.  Times are integer milliseconds; the t of renderFrame and the    *)
(* elapsed of the overlay, which the code holds in seconds, are held in    *)
(* milliseconds (t = 5 is 5 * MsPerSec).  The device pixel ratio is held   *)
(* in quarters (DprUnit = 4 is ratio 1, 6 is ratio 1.5).  The seed of a    *)
(* building is held in thousandths and its normalized fields in units of   *)
(* 1/10000.                                                                *)
(***************************************************************************)
EXTENDS Integers, Sequences, FiniteSets, TLC

\* ---------------------------------------------------------------- bounds
MaxLoops == 1      \* the clock runs over 0..MaxLoops further 45 s loops
MaxHandle == 4     \* requestAnimationFrame hands out handles 1..MaxHandle
MaxResizes == 2    \* resize events dispatched in one run
MaxRefs == 3       \* arrays a layout generator hands out in one run

\* ------------------------------------------------------ program constants
TOTAL_DURATION == 45000
TOTAL == 45
MsPerSec == 1000
BuildingCount == 45
BillboardCount == 6
DprUnit == 4

\* ------------------------------------------------------------ arithmetic
\* The % of the source language: the remainder of the truncated division,
\* which carries the sign of the dividend.
JsRem(a, b) == IF a >= 0 THEN a % b ELSE 0 - ((0 - a) % b)

\* A double stored into an unsigned long attribute (canvas.width): the
\* fraction is dropped.
Trunc(num, den) == IF num >= 0 THEN num \div den ELSE 0 - ((0 - num) \div den)

Min(a, b) == IF a < b THEN a ELSE b
Max(a, b) == IF a > b THEN a ELSE b

clamp(value, min, max) == Min(max, Max(min, value))

wrapTimeNoSign(timestamp, loopLength) == JsRem(timestamp, loopLength)

wrapTime(timestamp, loopLength) ==
    JsRem(JsRem(timestamp, loopLength) + loopLength, loopLength)

\* -------------------------------------------------------- Scene Generator
\* Math.sin(i * 2245.929) * 10000 for i = 0..46, in thousandths.
SinSeedTable ==
    << 0, 3048180, -5806238, 8011665, -9454552, 9997567, -9589026, 8267813,
       -6159680, 3465276, -441052, -2625151, 5441496, -7739925, 9301679,
       -9978110, 9704836, -8507869, 6501134, -3875628, 881245, 2197014,
       -5066163, 7453122, -9130702, 9939233, -9801760, 8731368, -6829935,
       4278437, -1319723, -1764600, 4680971, -7151813, 8941955, -9881012,
       9879607, -8937873, 7145443, -4672920, 1755633, 1328752, -4286669,
       6836585, -8735804, 9803560, -9938226 >>

\* Math.cos(index * 512.42) * 9999 for index = 0..5, in thousandths.
CosSeedTable == << 9999000, -9425278, 7769949, -5222973, 2076630, 1308019 >>

Abs(v) == IF v < 0 THEN 0 - v ELSE v

\* One Building of generateBuildings(count), i counted from 0 as in the
\* loop.  Fields in units of 1/10000, lightSeed in thousandths.
Building(i, count) ==
    LET seed == SinSeedTable[i + 1]
    IN  [ x         |-> ((i * 10500) \div count) - 500 + JsRem(10 * seed, 300),
          width     |-> 300 + JsRem(13 * seed, 500),
          height    |-> 3000 + JsRem(37 * seed, 7000),
          lightSeed |-> Abs(seed) ]

generateBuildings(count) == [ k \in 1..count |-> Building(k - 1, count) ]

Billboard(index) ==
    LET seed == CosSeedTable[index + 1]
    IN  [ x        |-> 1000 + Trunc(JsRem(10 * Abs(seed), 8000) * 8, 10),
          y        |-> 1000 + Trunc(JsRem(53 * seed, 60000) * 6, 100),
          width    |-> 1000 + JsRem(12 * seed, 2000),
          height   |-> 800 + Trunc(JsRem(91 * seed, 12000), 10),
          rotation |-> Trunc(JsRem(10 * seed, 31416), 6) ]

generateBillboards == [ k \in 1..BillboardCount |-> Billboard(k - 1) ]

\* --------------------------------------------------------- Frame Renderer
\* The time constants of the draw passes, in seconds as in the source.
shockStart == 5
shockEnd == 11
arenaStart == 9
arenaEnd == 20
portalStart == 18
portalEnd == 31
monsterStart == 24
monsterEnd == 44
finaleStart == 38
finaleSpan == 7
lightningStart == 28
growEnd == 5
shrinkStart == 40
baseSize == 160

\* A scene is [width, height, t, buildings, billboards, pulse]: the
\* SceneContext of the source, t in milliseconds, and pulse, the value of
\* Math.sin(t * 8) * 0.5 + 0.5 in hundredths, which lies in 0..100.
\* A pass yields the record of what it did: its name, the number of draw
\* operations (fill, stroke, fillRect, strokeRect, fillText) it issued, and
\* its progress as the fraction pnum / pden.

\* clamp((t - start) / (end - start), 0, 1) as a numerator over the span.
Progress(t, start, end) == clamp(t - start * MsPerSec, 0, (end - start) * MsPerSec)

\* easeInOut(t) for t = num / den, in thousandths: 4 * t * t * t below one
\* half, 1 - Math.pow(-2 * t + 2, 3) / 2 from there on.
EaseUnit == 1000

easeInOut(num, den) ==
    LET x == (num * EaseUnit) \div den
        y == 2 * EaseUnit - 2 * x
    IN  IF 2 * num < den
        THEN (4 * x * x * x) \div (EaseUnit * EaseUnit)
        ELSE EaseUnit - (y * y * y) \div (2 * EaseUnit * EaseUnit)

\* lerp(a, b, t) = a + (b - a) * t for t in thousandths; the result is in
\* thousandths of the unit of a and b.
lerp(a, b, t) == a * EaseUnit + (b - a) * t

\* The delay of the item of a pass at index (0, 1, ...): index * 0.5 s for
\* a portal, index * 0.8 s for a monster; and the number of items.
portalDelay == 500
monsterDelay == 800
PortalCount == 4
MonsterCount == 3

drawSkies(scene) ==
    [ pass |-> "drawSkies", draws |-> 1 + 120, pnum |-> 0, pden |-> 1 ]

\* windowCols of one building: Math.max(4, Math.floor(w / 12)).
windowCols(building, width) == Max(4, (building.width * width) \div (10000 * 12))

RECURSIVE CityDraws(_, _, _)
CityDraws(buildings, width, k) ==
    IF k > Len(buildings) THEN 0
    ELSE 1 + (8 - 1) * windowCols(buildings[k], width)
           + CityDraws(buildings, width, k + 1)

drawCity(scene) ==
    [ pass |-> "drawCity",
      draws |-> CityDraws(scene.buildings, scene.width, 1) + 2 * Len(scene.billboards),
      pnum |-> 0, pden |-> 1 ]

\* radius = lerp(0, Math.max(width, height) * 1.2, eased), in units of
\* 1/10000 of a pixel.
shockRadius(scene) ==
    lerp(0, Max(scene.width, scene.height) * 12,
         easeInOut(Progress(scene.t, shockStart, shockEnd),
                   (shockEnd - shockStart) * MsPerSec))

drawShockwaveAlways(scene) ==
    [ pass |-> "drawShockwave", draws |-> 1,
      pnum |-> Progress(scene.t, shockStart, shockEnd),
      pden |-> (shockEnd - shockStart) * MsPerSec,
      radius |-> shockRadius(scene) ]

drawShockwave(scene) ==
    IF scene.t < shockStart * MsPerSec
    THEN [ pass |-> "drawShockwave", draws |-> 0, pnum |-> 0, pden |-> 1 ]
    ELSE [ pass |-> "drawShockwave", draws |-> 1,
           pnum |-> Progress(scene.t, shockStart, shockEnd),
           pden |-> (shockEnd - shockStart) * MsPerSec,
           radius |-> shockRadius(scene) ]

drawArena(scene) ==
    IF scene.t < arenaStart * MsPerSec
    THEN [ pass |-> "drawArena", draws |-> 0, pnum |-> 0, pden |-> 1 ]
    ELSE [ pass |-> "drawArena",
           draws |-> 20 + 12 + 6 + 1 + Len(scene.billboards),
           pnum |-> Progress(scene.t, arenaStart, arenaEnd),
           pden |-> (arenaEnd - arenaStart) * MsPerSec ]

\* progress of the portal at index: clamp((t - portalStart - appearDelay) /
\* (portalDuration - appearDelay), 0, 1), as num / den.
portalProgress(t, index) ==
    LET appearDelay == index * portalDelay
        span == (portalEnd - portalStart) * MsPerSec - appearDelay
    IN  [ num |-> clamp(t - portalStart * MsPerSec - appearDelay, 0, span),
          den |-> span ]

drawPortals(scene) ==
    IF scene.t < portalStart * MsPerSec
    THEN [ pass |-> "drawPortals", draws |-> 0, pnum |-> 0, pden |-> 1 ]
    ELSE [ pass |-> "drawPortals",
           draws |-> 4 * (1 + 6 + 2 + 1),
           pnum |-> Progress(scene.t, portalStart, portalEnd),
           pden |-> (portalEnd - portalStart) * MsPerSec,
           items |-> [ i \in 1..PortalCount |-> portalProgress(scene.t, i - 1) ] ]

\* progress of the monster at index: clamp((t - monsterStart - appearDelay)
\* / (monsterEnd - monsterStart), 0, 1), as num / den.
monsterProgress(t, index) ==
    LET appearDelay == index * monsterDelay
        span == (monsterEnd - monsterStart) * MsPerSec
    IN  [ num |-> clamp(t - monsterStart * MsPerSec - appearDelay, 0, span),
          den |-> span ]

drawMonsters(scene) ==
    IF scene.t < monsterStart * MsPerSec
    THEN [ pass |-> "drawMonsters", draws |-> 0, pnum |-> 0, pden |-> 1 ]
    ELSE [ pass |-> "drawMonsters",
           draws |-> 3 * (1 + 1 + 1 + 3),
           pnum |-> Progress(scene.t, monsterStart, monsterEnd),
           pden |-> (monsterEnd - monsterStart) * MsPerSec,
           items |-> [ i \in 1..MonsterCount |-> monsterProgress(scene.t, i - 1) ] ]

\* holdingPhase of drawHero, as a numerator over PhaseUnit.
PhaseUnit == growEnd * MsPerSec

holdingPhaseNoHold(t) ==
    IF t < growEnd * MsPerSec THEN clamp(t, 0, PhaseUnit)
    ELSE clamp(PhaseUnit - (t - growEnd * MsPerSec), 0, PhaseUnit)

holdingPhase(t) ==
    IF t < growEnd * MsPerSec THEN clamp(t, 0, PhaseUnit)
    ELSE IF t < shrinkStart * MsPerSec THEN PhaseUnit
    ELSE clamp(PhaseUnit - (t - shrinkStart * MsPerSec), 0, PhaseUnit)

\* ballRadius = baseSize * (0.16 + pulse * 0.02) * holdingPhase, as a
\* numerator over 10000 * PhaseUnit.
ballRadius(t, pulse) == baseSize * (1600 + 2 * pulse) * holdingPhase(t)

drawHero(scene) ==
    LET radius == ballRadius(scene.t, scene.pulse)
    IN  [ pass |-> "drawHero",
          draws |-> (IF scene.t > lightningStart * MsPerSec THEN 12 ELSE 0)
                    + 4 + (IF radius > 0 THEN 1 + 5 ELSE 0),
          pnum |-> holdingPhase(scene.t), pden |-> PhaseUnit,
          ballRadius |-> radius,
          ballDraws |-> IF radius > 0 THEN 1 + 5 ELSE 0 ]

drawEnergyFlows(scene) ==
    [ pass |-> "drawEnergyFlows", draws |-> 18 + 70, pnum |-> 0, pden |-> 1 ]

drawForegroundEffects(scene) ==
    IF scene.t < finaleStart * MsPerSec
    THEN [ pass |-> "drawForegroundEffects", draws |-> 0, pnum |-> 0, pden |-> 1 ]
    ELSE [ pass |-> "drawForegroundEffects",
           draws |-> 1 + 1 + 30,
           pnum |-> clamp(scene.t - finaleStart * MsPerSec, 0, finaleSpan * MsPerSec),
           pden |-> finaleSpan * MsPerSec ]

\* renderFrame: the surface is cleared over the canvas's client box, then
\* the passes run one after the other; the result is the trace of the call.
renderFrameSwapped(canvas, tSeconds, buildings, billboards, pulse) ==
    LET scene == [ width |-> canvas.clientWidth, height |-> canvas.clientHeight,
                   t |-> tSeconds, buildings |-> buildings,
                   billboards |-> billboards, pulse |-> pulse ]
    IN  << [ pass |-> "clearRect", draws |-> 0, pnum |-> 0, pden |-> 1 ],
           drawSkies(scene), drawCity(scene), drawShockwave(scene),
           drawArena(scene), drawPortals(scene), drawHero(scene),
           drawMonsters(scene), drawEnergyFlows(scene),
           drawForegroundEffects(scene) >>

renderFrame(canvas, tSeconds, buildings, billboards, pulse) ==
    LET scene == [ width |-> canvas.clientWidth, height |-> canvas.clientHeight,
                   t |-> tSeconds, buildings |-> buildings,
                   billboards |-> billboards, pulse |-> pulse ]
    IN  << [ pass |-> "clearRect", draws |-> 0, pnum |-> 0, pden |-> 1 ],
           drawSkies(scene), drawCity(scene), drawShockwave(scene),
           drawArena(scene), drawPortals(scene), drawMonsters(scene),
           drawHero(scene), drawEnergyFlows(scene),
           drawForegroundEffects(scene) >>

\* ---------------------------------------------------------- drawing state
\* The drawing state of the 2D context that the passes change: globalAlpha
\* in thousandths, globalCompositeOperation, the transformations applied on
\* top of the scale of handleResize (in the order they were applied), and
\* the stack of the states saved by save().
DefaultDrawState ==
    [ globalAlpha |-> 1000, globalCompositeOperation |-> "source-over",
      transform |-> << >>, stack |-> << >> ]

\* One operation on the drawing state.  save() pushes the current state,
\* restore() pops it and does nothing on an empty stack; an assignment to
\* globalAlpha outside [0, 1] is ignored; translate(0, 0) and scale(1, 1)
\* leave the transformation as it is.
Apply(st, o) ==
    CASE o.op = "save" ->
            [ st EXCEPT !.stack = Append(@, [ globalAlpha |-> st.globalAlpha,
                                             globalCompositeOperation |->
                                                 st.globalCompositeOperation,
                                             transform |-> st.transform ]) ]
      [] o.op = "restore" ->
            IF st.stack = << >> THEN st
            ELSE LET top == st.stack[Len(st.stack)]
                 IN  [ globalAlpha |-> top.globalAlpha,
                       globalCompositeOperation |-> top.globalCompositeOperation,
                       transform |-> top.transform,
                       stack |-> SubSeq(st.stack, 1, Len(st.stack) - 1) ]
      [] o.op = "globalAlpha" ->
            IF o.v >= 0 /\ o.v <= 1000 THEN [ st EXCEPT !.globalAlpha = o.v ]
            ELSE st
      [] o.op = "globalCompositeOperation" ->
            [ st EXCEPT !.globalCompositeOperation = o.v ]
      [] o.op = "translate" ->
            IF o.v = << 0, 0 >> THEN st
            ELSE [ st EXCEPT !.transform = Append(@, o) ]
      [] o.op = "scale" ->
            IF o.v = << 1, 1 >> THEN st
            ELSE [ st EXCEPT !.transform = Append(@, o) ]
      [] o.op = "rotate" -> [ st EXCEPT !.transform = Append(@, o) ]

RECURSIVE ApplyAll(_, _, _)
ApplyAll(st, ops, k) ==
    IF k > Len(ops) THEN st ELSE ApplyAll(Apply(st, ops[k]), ops, k + 1)

RECURSIVE Concat(_, _)
Concat(seqs, k) == IF k > Len(seqs) THEN << >> ELSE seqs[k] \o Concat(seqs, k + 1)

save == [ op |-> "save" ]
restore == [ op |-> "restore" ]
SetAlpha(v) == [ op |-> "globalAlpha", v |-> v ]
SetComposite(v) == [ op |-> "globalCompositeOperation", v |-> v ]

\* The operations on the drawing state each pass issues, in program order.
\* drawCity: translate(0, height * 0.68) in hundredths of a pixel; for each
\* billboard translate(x + w / 2, y - h / 2) in 1/20000 and 1/100000 of a
\* pixel, and rotate by board.rotation plus the sway of its index.
drawCityState(scene) ==
    << save, [ op |-> "translate", v |-> << 0, scene.height * 68 >> ],
       [ op |-> "scale", v |-> << 1, 1 >> ] >>
    \o Concat([ i \in 1..Len(scene.billboards) |->
                  LET board == scene.billboards[i]
                  IN  << save,
                         [ op |-> "translate",
                           v |-> << (2 * board.x + board.width) * scene.width,
                                    0 - (6 * board.y + 5 * board.height)
                                            * scene.height >> ],
                         [ op |-> "rotate", v |-> << board.rotation, i - 1 >> ],
                         restore >> ], 1)
    \o << restore >>

\* drawArena: gridOpacity = 0.25 + localT * 0.6 around the floor grid, and
\* a second save around the headline.
drawArenaState(scene) ==
    IF scene.t < arenaStart * MsPerSec THEN << >>
    ELSE << save,
            SetAlpha(250 + (600 * Progress(scene.t, arenaStart, arenaEnd))
                               \div ((arenaEnd - arenaStart) * MsPerSec)),
            restore, save, restore >>

drawPortalsState(scene) ==
    IF scene.t < portalStart * MsPerSec THEN << >>
    ELSE Concat([ i \in 1..PortalCount |->
                     << save, SetComposite("lighter"), restore >> ], 1)

\* drawMonsters: globalAlpha = 0.6 + progress * 0.4 for each monster.
drawMonstersState(scene) ==
    IF scene.t < monsterStart * MsPerSec THEN << >>
    ELSE Concat([ i \in 1..MonsterCount |->
                     LET q == monsterProgress(scene.t, i - 1)
                     IN  << save, SetAlpha(600 + (400 * q.num) \div q.den),
                            restore >> ], 1)

\* drawHero: globalAlpha = 0.4 + pulse * 0.3 around the lightning arcs.
drawHeroStateNoRestore(scene) ==
    IF scene.t > lightningStart * MsPerSec
    THEN << save, SetAlpha(400 + 3 * scene.pulse) >>
    ELSE << >>

drawHeroState(scene) ==
    IF scene.t > lightningStart * MsPerSec
    THEN << save, SetAlpha(400 + 3 * scene.pulse), restore >>
    ELSE << >>

\* drawForegroundEffects: globalAlpha = 0.8 - finaleProgress * 0.3.
drawForegroundEffectsState(scene) ==
    IF scene.t < finaleStart * MsPerSec THEN << >>
    ELSE << save, SetComposite("screen"),
            SetAlpha(800 - (300 * clamp(scene.t - finaleStart * MsPerSec, 0,
                                        finaleSpan * MsPerSec))
                               \div (finaleSpan * MsPerSec)),
            restore >>

\* The operations of the step of renderFrame called name; clearRect,
\* drawSkies, drawShockwave and drawEnergyFlows issue none.
passState(name, scene) ==
    CASE name = "drawCity" -> drawCityState(scene)
      [] name = "drawArena" -> drawArenaState(scene)
      [] name = "drawPortals" -> drawPortalsState(scene)
      [] name = "drawMonsters" -> drawMonstersState(scene)
      [] name = "drawHero" -> drawHeroState(scene)
      [] name = "drawForegroundEffects" -> drawForegroundEffectsState(scene)
      [] OTHER -> << >>

\* The drawing state along the steps of one renderFrame that starts in
\* state st: for step k of trace the state before and after it and the
\* number of save() and restore() calls it made.
RECURSIVE renderFrameState(_, _, _, _)
renderFrameState(st, trace, scene, k) ==
    IF k > Len(trace) THEN << >>
    ELSE LET ops == passState(trace[k].pass, scene)
             after == ApplyAll(st, ops, 1)
         IN  << [ pass |-> trace[k].pass, before |-> st, after |-> after,
                  saves |-> Cardinality({ i \in 1..Len(ops) : ops[i].op = "save" }),
                  restores |-> Cardinality({ i \in 1..Len(ops) :
                                                ops[i].op = "restore" }) ] >>
             \o renderFrameState(after, trace, scene, k + 1)

\* ------------------------------------------------------------------ state
VARIABLES
    now,              \* performance.now(), in milliseconds
    lastFrameTs,      \* the timestamp the host handed to its last frame
    callbacks,        \* the window's animation frame callbacks: {[handle, cb]}
    nextHandle,       \* the handle the next requestAnimationFrame returns
    listeners,        \* the window's registered resize listeners
    innerWidth,       \* window.innerWidth
    innerHeight,      \* window.innerHeight
    devicePixelRatio, \* window.devicePixelRatio, in quarters
    resizes,          \* resize events dispatched so far
    surface,          \* what the host has for the canvas ref: "ok",
                      \* "noCanvas" (canvasRef.current is null) or
                      \* "noContext" (getContext("2d") returns null)
    ccPhase,          \* CinematicCanvas effect: "unmounted", "active" (it
                      \* returned its cleanup), "inert" (it returned at a
                      \* guard), "torn" (the cleanup ran or had nothing to run)
    animationFrame,   \* the effect's let animationFrame
    ccStart,          \* the effect's let start
    canvas,           \* the canvas element: backing buffer and client box
    context,          \* the 2D context's current scale, as num / den
    drawState,        \* the 2D context's drawing state besides that scale
    frame,            \* what the last draw(timestamp) did, << >> before it
    buildings,        \* useMemo(() => generateBuildings(45), [])
    billboards,       \* useMemo(() => generateBillboards(), [])
    layoutRef,        \* which arrays the two memos hold: the n-th array its
                      \* generator handed out, as [buildings, billboards]
    effectRuns,       \* how often the body of the driver's effect has run
    hudPhase,         \* HudOverlay effect: "unmounted", "active", "torn"
    hudFrame,         \* the overlay effect's let frame
    hudStart,         \* the overlay effect's const start
    elapsed,          \* the overlay's state elapsed, in milliseconds
    hudTicks,         \* what the last loop(time) did, << >> before it
    lastCall          \* the callback of the program the host invoked last

hostVars == << now, lastFrameTs, callbacks, nextHandle, listeners,
               innerWidth, innerHeight, devicePixelRatio, resizes, surface >>
ccVars == << ccPhase, animationFrame, ccStart, canvas, context, frame,
             buildings, billboards, layoutRef, effectRuns, drawState >>
hudVars == << hudPhase, hudFrame, hudStart, elapsed, hudTicks >>
vars == << hostVars, ccVars, hudVars, lastCall >>

\* ------------------------------------------------------------------- host
\* The instants the clock is observed at.  Instants(origin, points) are the
\* given offsets from origin in each of the loops the clock runs over.
Instants(origin, points) ==
    { origin + p + k * TOTAL_DURATION : p \in points, k \in 0..MaxLoops }

\* The ends of the loop and the first marker.
LoopPoints == { 0, 5000, 44999 }

\* The time of every marker of the overlay and the instant before it.
MarkerPoints == { 0, 1, 4999, 5000, 11999, 12000, 19999, 20000, 27999, 28000,
                  37999, 38000, 44999 }

\* Every twentieth of a second of the loop, and the instants around each time
\* constant of the draw passes.
PassTimes == { 5, 9, 11, 18, 20, 24, 28, 31, 38, 40, 44 }
FramePoints == { t \in 0..(TOTAL_DURATION - 1) :
                    \/ t % 50 = 0
                    \/ t <= 2
                    \/ t >= TOTAL_DURATION - 2
                    \/ \E b \in PassTimes : Abs(t - b * MsPerSec) <= 1 }

\* How far the timestamp of a frame may lie before performance.now(): the
\* timestamp is the time the frame began, the clock is read later.
FrameLags == { 0, 16 }

\* The viewports and device pixel ratios (in quarters) of the window.
Viewports == { << 1001, 701 >>, << 375, 667 >> }
PixelRatios == { 4, 6, 8 }

\* The values of Math.sin(t * 8) * 0.5 + 0.5 a frame may see, in hundredths.
PulseValues == { 0, 50, 100 }

requestAnimationFrame(cbs, handle, cb) == cbs \cup { [ handle |-> handle, cb |-> cb ] }

cancelAnimationFrame(cbs, handle) == { e \in cbs : e.handle # handle }

\* The timestamps the host may hand to the callbacks of a frame.
FrameTimestamps == { ts \in { now - lag : lag \in FrameLags } :
                        ts >= 0 /\ ts >= lastFrameTs }

DefaultCanvas == [ width |-> 300, height |-> 150,
                   clientWidth |-> 300, clientHeight |-> 150 ]

Identity == [ num |-> 1, den |-> 1 ]

Init ==
    /\ now = 0
    /\ lastFrameTs = 0
    /\ callbacks = {}
    /\ nextHandle = 1
    /\ listeners = {}
    /\ innerWidth = 1001
    /\ innerHeight = 701
    /\ devicePixelRatio = 6
    /\ resizes = 0
    /\ surface \in { "ok", "noCanvas", "noContext" }
    /\ ccPhase = "unmounted"
    /\ animationFrame = 0
    /\ ccStart = 0
    /\ canvas = DefaultCanvas
    /\ context = Identity
    /\ drawState = DefaultDrawState
    /\ frame = << >>
    /\ buildings = generateBuildings(BuildingCount)
    /\ billboards = generateBillboards
    /\ layoutRef = [ buildings |-> 1, billboards |-> 1 ]
    /\ effectRuns = 0
    /\ hudPhase = "unmounted"
    /\ hudFrame = 0
    /\ hudStart = 0
    /\ elapsed = 0
    /\ hudTicks = << >>
    /\ lastCall = "none"

\* Time passes, as long as a frame can still be scheduled.
AdvanceClock(grid) ==
    /\ nextHandle <= MaxHandle
    /\ \E p \in grid : p > now /\ now' = p
    /\ UNCHANGED << lastFrameTs, callbacks, nextHandle, listeners, innerWidth,
                    innerHeight, devicePixelRatio, resizes, surface >>
    /\ UNCHANGED << ccVars, hudVars, lastCall >>

\* -------------------------------------------------------- Animation Driver
\* const dpr = window.devicePixelRatio || 1, in quarters.
Dpr(ratio) == IF ratio = 0 THEN DprUnit ELSE ratio

\* context.scale(dpr, dpr) on the current transform.
ScaleBy(ctx, dpr) == [ num |-> ctx.num * dpr, den |-> ctx.den * DprUnit ]

\* handleResize, for a window of w x h at the given ratio: assigning
\* canvas.width and canvas.height stores the value as an unsigned long and
\* resets the context to its default state; the style width and height give
\* the canvas its client box; then the context is scaled.
handleResizeNoReset(w, h, ratio, ctx) ==
    [ canvas  |-> [ width |-> Trunc(w * Dpr(ratio), DprUnit),
                    height |-> Trunc(h * Dpr(ratio), DprUnit),
                    clientWidth |-> w, clientHeight |-> h ],
      context |-> ScaleBy(ctx, Dpr(ratio)) ]

handleResize(w, h, ratio, ctx) ==
    [ canvas  |-> [ width |-> Trunc(w * Dpr(ratio), DprUnit),
                    height |-> Trunc(h * Dpr(ratio), DprUnit),
                    clientWidth |-> w, clientHeight |-> h ],
      context |-> ScaleBy(Identity, Dpr(ratio)) ]

\* The effect of CinematicCanvas runs: it returns at once unless the host
\* has the canvas and its 2D context.
CcMountUnguarded ==
    /\ ccPhase = "unmounted"
    /\ nextHandle <= MaxHandle
    /\ LET r == handleResize(innerWidth, innerHeight, devicePixelRatio, context)
       IN  /\ canvas' = r.canvas
           /\ context' = r.context
           /\ drawState' = DefaultDrawState
    /\ ccStart' = now
    /\ listeners' = listeners \cup { "handleResize" }
    /\ callbacks' = requestAnimationFrame(callbacks, nextHandle, "draw")
    /\ animationFrame' = nextHandle
    /\ nextHandle' = nextHandle + 1
    /\ ccPhase' = "active"
    /\ effectRuns' = effectRuns + 1
    /\ lastCall' = "ccEffect"
    /\ UNCHANGED << now, lastFrameTs, innerWidth, innerHeight, devicePixelRatio,
                    resizes, surface, frame, buildings, billboards, layoutRef >>
    /\ UNCHANGED hudVars

CcMount ==
    /\ ccPhase = "unmounted"
    /\ surface = "ok" => nextHandle <= MaxHandle
    /\ IF surface # "ok"
       THEN /\ ccPhase' = "inert"
            /\ UNCHANGED << animationFrame, ccStart, canvas, context,
                            drawState, listeners, callbacks, nextHandle >>
       ELSE /\ LET r == handleResize(innerWidth, innerHeight,
                                     devicePixelRatio, context)
               IN  /\ canvas' = r.canvas
                   /\ context' = r.context
                   /\ drawState' = DefaultDrawState
            /\ ccStart' = now
            /\ listeners' = listeners \cup { "handleResize" }
            /\ callbacks' = requestAnimationFrame(callbacks, nextHandle, "draw")
            /\ animationFrame' = nextHandle
            /\ nextHandle' = nextHandle + 1
            /\ ccPhase' = "active"
    /\ effectRuns' = effectRuns + 1
    /\ lastCall' = "ccEffect"
    /\ UNCHANGED << now, lastFrameTs, innerWidth, innerHeight, devicePixelRatio,
                    resizes, surface, frame, buildings, billboards, layoutRef >>
    /\ UNCHANGED hudVars

\* The window is resized to viewport v at pixel ratio ratio and the host
\* dispatches the resize event to the registered listeners.
WindowResize(v, ratio) ==
    /\ resizes < MaxResizes
    /\ resizes' = resizes + 1
    /\ innerWidth' = v[1]
    /\ innerHeight' = v[2]
    /\ devicePixelRatio' = ratio
    /\ IF "handleResize" \in listeners
       THEN /\ LET r == handleResize(v[1], v[2], ratio, context)
               IN  /\ canvas' = r.canvas
                   /\ context' = r.context
                   /\ drawState' = DefaultDrawState
            /\ lastCall' = "handleResize"
       ELSE UNCHANGED << canvas, context, drawState, lastCall >>
    /\ UNCHANGED << now, lastFrameTs, callbacks, nextHandle, listeners, surface >>
    /\ UNCHANGED << ccPhase, animationFrame, ccStart, frame, buildings,
                    billboards, layoutRef, effectRuns >>
    /\ UNCHANGED hudVars

\* What draw(timestamp) computes and renders.
DrawnFrame(timestamp, pulse) ==
    LET e == wrapTime(timestamp - ccStart, TOTAL_DURATION)
        trace == renderFrame(canvas, e, buildings, billboards, pulse)
        scene == [ width |-> canvas.clientWidth, height |-> canvas.clientHeight,
                   t |-> e, buildings |-> buildings,
                   billboards |-> billboards, pulse |-> pulse ]
    IN  [ timestamp |-> timestamp, start |-> ccStart, elapsed |-> e, t |-> e,
          clientBox |-> << canvas.clientWidth, canvas.clientHeight >>,
          trace |-> trace,
          state |-> renderFrameState(drawState, trace, scene, 1) ]

\* The host runs the frame callback entry e, which is draw, at timestamp.
CcDraw(e, timestamp, pulse) ==
    /\ e \in callbacks
    /\ e.cb = "draw"
    /\ timestamp \in FrameTimestamps
    /\ nextHandle <= MaxHandle
    /\ frame' = DrawnFrame(timestamp, pulse)
    /\ drawState' = frame'.state[Len(frame'.state)].after
    /\ callbacks' = requestAnimationFrame(callbacks \ { e }, nextHandle, "draw")
    /\ animationFrame' = nextHandle
    /\ nextHandle' = nextHandle + 1
    /\ lastFrameTs' = timestamp
    /\ lastCall' = "draw"
    /\ UNCHANGED << now, listeners, innerWidth, innerHeight, devicePixelRatio,
                    resizes, surface >>
    /\ UNCHANGED << ccPhase, ccStart, canvas, context, buildings, billboards,
                    layoutRef, effectRuns >>
    /\ UNCHANGED hudVars

\* useMemo(factory, []): the dependency list is empty, so a later render
\* gets the array the first render cached; the factory's fresh array (fresh)
\* is never asked for.
useMemoNoCache(cached, fresh) == fresh

useMemo(cached, fresh) == cached

\* React calls CinematicCanvas again while it is in view.  Both memos are
\* read; the effect's dependencies [billboards, buildings] are compared by
\* identity with those of the previous render, and only if one differs the
\* previous cleanup runs and the effect runs again.
CcRender ==
    /\ ccPhase \in { "active", "inert" }
    /\ nextHandle <= MaxHandle
    /\ layoutRef.buildings <= MaxRefs
    /\ layoutRef.billboards <= MaxRefs
    /\ LET b == useMemo([ value |-> buildings, ref |-> layoutRef.buildings ],
                        [ value |-> generateBuildings(BuildingCount),
                          ref |-> layoutRef.buildings + 1 ])
           s == useMemo([ value |-> billboards, ref |-> layoutRef.billboards ],
                        [ value |-> generateBillboards,
                          ref |-> layoutRef.billboards + 1 ])
           same == b.ref = layoutRef.buildings /\ s.ref = layoutRef.billboards
           cleaned == IF ccPhase = "active"
                      THEN cancelAnimationFrame(callbacks, animationFrame)
                      ELSE callbacks
       IN  /\ buildings' = b.value
           /\ billboards' = s.value
           /\ layoutRef' = [ buildings |-> b.ref, billboards |-> s.ref ]
           /\ IF same
              THEN /\ lastCall' = "render"
                   /\ UNCHANGED << ccPhase, animationFrame, ccStart, canvas,
                                   context, drawState, listeners, callbacks,
                                   nextHandle, effectRuns >>
              ELSE /\ effectRuns' = effectRuns + 1
                   /\ lastCall' = "ccEffect"
                   /\ IF surface # "ok"
                      THEN /\ ccPhase' = "inert"
                           /\ listeners' = listeners \ { "handleResize" }
                           /\ callbacks' = cleaned
                           /\ UNCHANGED << animationFrame, ccStart, canvas,
                                           context, drawState, nextHandle >>
                      ELSE /\ LET r == handleResize(innerWidth, innerHeight,
                                                    devicePixelRatio, context)
                              IN  /\ canvas' = r.canvas
                                  /\ context' = r.context
                                  /\ drawState' = DefaultDrawState
                           /\ ccStart' = now
                           /\ listeners' = listeners \cup { "handleResize" }
                           /\ callbacks' = requestAnimationFrame(cleaned,
                                                                 nextHandle, "draw")
                           /\ animationFrame' = nextHandle
                           /\ nextHandle' = nextHandle + 1
                           /\ ccPhase' = "active"
    /\ UNCHANGED << now, lastFrameTs, innerWidth, innerHeight, devicePixelRatio,
                    resizes, surface, frame >>
    /\ UNCHANGED hudVars

\* The canvas is removed from view: the cleanup the effect returned runs.
\* An effect that returned at a guard returned no cleanup.
CcTeardownNoCancel ==
    /\ ccPhase \in { "active", "inert" }
    /\ IF ccPhase = "active"
       THEN /\ listeners' = listeners \ { "handleResize" }
            /\ UNCHANGED callbacks
       ELSE UNCHANGED << callbacks, listeners >>
    /\ ccPhase' = "torn"
    /\ lastCall' = "ccCleanup"
    /\ UNCHANGED << now, lastFrameTs, nextHandle, innerWidth, innerHeight,
                    devicePixelRatio, resizes, surface >>
    /\ UNCHANGED << animationFrame, ccStart, canvas, context, drawState,
                    frame, buildings, billboards, layoutRef, effectRuns >>
    /\ UNCHANGED hudVars

CcTeardown ==
    /\ ccPhase \in { "active", "inert" }
    /\ IF ccPhase = "active"
       THEN /\ callbacks' = cancelAnimationFrame(callbacks, animationFrame)
            /\ listeners' = listeners \ { "handleResize" }
       ELSE UNCHANGED << callbacks, listeners >>
    /\ ccPhase' = "torn"
    /\ lastCall' = "ccCleanup"
    /\ UNCHANGED << now, lastFrameTs, nextHandle, innerWidth, innerHeight,
                    devicePixelRatio, resizes, surface >>
    /\ UNCHANGED << animationFrame, ccStart, canvas, context, drawState,
                    frame, buildings, billboards, layoutRef, effectRuns >>
    /\ UNCHANGED hudVars

\* -------------------------------------------------------- Timeline Overlay
TIMELINE ==
    << [ time |-> 0, label |-> "Times Square Awakens" ],
       [ time |-> 5, label |-> "Shockwave Kick" ],
       [ time |-> 12, label |-> "Arena Transformation" ],
       [ time |-> 20, label |-> "Superhero Allies" ],
       [ time |-> 28, label |-> "Monster Siege" ],
       [ time |-> 38, label |-> "Final Mega Kick" ] >>

\* The scan of activeMarker over TIMELINE from entry k on.
RECURSIVE ScanMarkers(_, _, _)
ScanMarkers(current, k, e) ==
    IF k > Len(TIMELINE) THEN current
    ELSE ScanMarkers(IF e >= TIMELINE[k].time * MsPerSec THEN TIMELINE[k]
                     ELSE current, k + 1, e)

activeMarkerStrict(e) ==
    LET RECURSIVE Scan(_, _)
        Scan(current, k) ==
            IF k > Len(TIMELINE) THEN current
            ELSE Scan(IF e > TIMELINE[k].time * MsPerSec THEN TIMELINE[k]
                      ELSE current, k + 1)
    IN  Scan(TIMELINE[1], 1)

activeMarker(e) == ScanMarkers(TIMELINE[1], 1, e)

\* The width of the tracker bar, elapsed / TOTAL, as num / den.
trackerWidth(e) == [ num |-> e, den |-> TOTAL * MsPerSec ]

\* const t = ((time - start) % (TOTAL * 1000)) / 1000, in milliseconds.
LoopElapsed(time, start) == JsRem(time - start, TOTAL * MsPerSec)

HudMount ==
    /\ hudPhase = "unmounted"
    /\ nextHandle <= MaxHandle
    /\ hudStart' = now
    /\ callbacks' = requestAnimationFrame(callbacks, nextHandle, "loop")
    /\ hudFrame' = nextHandle
    /\ nextHandle' = nextHandle + 1
    /\ hudPhase' = "active"
    /\ lastCall' = "hudEffect"
    /\ UNCHANGED << now, lastFrameTs, listeners, innerWidth, innerHeight,
                    devicePixelRatio, resizes, surface, elapsed, hudTicks >>
    /\ UNCHANGED ccVars

\* The host runs the frame callback entry e, which is loop, at time.
HudLoop(e, time) ==
    /\ e \in callbacks
    /\ e.cb = "loop"
    /\ time \in FrameTimestamps
    /\ nextHandle <= MaxHandle
    /\ elapsed' = LoopElapsed(time, hudStart)
    /\ hudTicks' = [ time |-> time, start |-> hudStart, prev |-> elapsed,
                      prevTime |-> IF hudTicks = << >> THEN hudStart
                                   ELSE hudTicks.time ]
    /\ callbacks' = requestAnimationFrame(callbacks \ { e }, nextHandle, "loop")
    /\ hudFrame' = nextHandle
    /\ nextHandle' = nextHandle + 1
    /\ lastFrameTs' = time
    /\ lastCall' = "loop"
    /\ UNCHANGED << now, listeners, innerWidth, innerHeight, devicePixelRatio,
                    resizes, surface, hudPhase, hudStart >>
    /\ UNCHANGED ccVars

HudTeardown ==
    /\ hudPhase = "active"
    /\ callbacks' = cancelAnimationFrame(callbacks, hudFrame)
    /\ hudPhase' = "torn"
    /\ lastCall' = "hudCleanup"
    /\ UNCHANGED << now, lastFrameTs, nextHandle, listeners, innerWidth,
                    innerHeight, devicePixelRatio, resizes, surface >>
    /\ UNCHANGED << hudFrame, hudStart, elapsed, hudTicks >>
    /\ UNCHANGED ccVars

\* ---------------------------------------------------------- specification
\* The page: both components, each mounted and torn down once, the canvas
\* re-rendered while it is in view, over a window that changes its pixel
\* ratio; every frame is on time.
Next ==
    \/ AdvanceClock(Instants(0, { 0 }))
    \/ CcMount
    \/ CcRender
    \/ \E r \in { 4, 6 } : WindowResize(<< 1001, 701 >>, r)
    \/ \E e \in callbacks : CcDraw(e, now, 50)
    \/ CcTeardown
    \/ HudMount
    \/ \E e \in callbacks : HudLoop(e, now)
    \/ HudTeardown

Spec == Init /\ [][Next]_vars

\* The Animation Driver alone, over every viewport and pixel ratio, with
\* frames that may begin before the clock is read.
NextCanvas ==
    \/ AdvanceClock(Instants(0, LoopPoints))
    \/ CcMount
    \/ \E v \in Viewports, r \in PixelRatios : WindowResize(v, r)
    \/ \E e \in callbacks, ts \in FrameTimestamps : CcDraw(e, ts, 50)
    \/ CcTeardown

SpecCanvas == Init /\ [][NextCanvas]_vars

\* The Timeline Overlay alone, mounted at time 0 or 5000; once it is
\* mounted the clock is observed at the times of its markers.
NextHud ==
    \/ AdvanceClock(IF hudPhase = "unmounted" THEN { 5000 }
                    ELSE Instants(hudStart, MarkerPoints))
    \/ HudMount
    \/ \E e \in callbacks, ts \in FrameTimestamps : HudLoop(e, ts)
    \/ HudTeardown

InitHud == Init /\ surface = "ok"

SpecHud == InitHud /\ [][NextHud]_vars

\* The Frame Renderer over the whole loop: the driver was mounted at time 0
\* and the clock stands at any instant of FramePoints when a frame is due.
InitFrame ==
    /\ now \in FramePoints
    /\ lastFrameTs = 0
    /\ callbacks = requestAnimationFrame({}, 1, "draw")
    /\ nextHandle = 2
    /\ listeners = { "handleResize" }
    /\ innerWidth = 1001
    /\ innerHeight = 701
    /\ devicePixelRatio = 6
    /\ resizes = 0
    /\ surface = "ok"
    /\ ccPhase = "active"
    /\ animationFrame = 1
    /\ ccStart = 0
    /\ canvas = handleResize(1001, 701, 6, Identity).canvas
    /\ context = handleResize(1001, 701, 6, Identity).context
    /\ drawState = DefaultDrawState
    /\ frame = << >>
    /\ buildings = generateBuildings(BuildingCount)
    /\ billboards = generateBillboards
    /\ layoutRef = [ buildings |-> 1, billboards |-> 1 ]
    /\ effectRuns = 1
    /\ hudPhase = "unmounted"
    /\ hudFrame = 0
    /\ hudStart = 0
    /\ elapsed = 0
    /\ hudTicks = << >>
    /\ lastCall = "ccEffect"

NextFrame == \E e \in callbacks, p \in PulseValues : CcDraw(e, now, p)

SpecFrame == InitFrame /\ [][NextFrame]_vars

\* ------------------------------------------------------------------ claims
DrawCallbacks == { e \in callbacks : e.cb = "draw" }
LoopCallbacks == { e \in callbacks : e.cb = "loop" }

\* C1: after the teardown of the Animation Driver or of the Timeline
\* Overlay nothing of the component is left with the host and nothing of
\* it runs again: while a component is active its one pending frame
\* callback is the one whose handle it holds (so the cleanup cancels that
\* one), and once it is torn down no frame callback of it is pending, its
\* resize listener is gone, and the host has invoked neither draw (and so
\* renderFrame), nor handleResize, nor loop since.
C1_NoCallbackAfterTeardown ==
    /\ ccPhase = "active" =>
          DrawCallbacks = { [ handle |-> animationFrame, cb |-> "draw" ] }
    /\ hudPhase = "active" =>
          LoopCallbacks = { [ handle |-> hudFrame, cb |-> "loop" ] }
    /\ ccPhase = "torn" =>
          /\ DrawCallbacks = {}
          /\ "handleResize" \notin listeners
          /\ lastCall \notin { "draw", "handleResize" }
    /\ hudPhase = "torn" =>
          /\ LoopCallbacks = {}
          /\ lastCall # "loop"

\* Both components were mounted, ran frames, saw a resize, and are torn
\* down, the driver after the overlay.
C1_Witness ==
    /\ ccPhase = "torn"
    /\ hudPhase = "torn"
    /\ frame # << >>
    /\ hudTicks # << >>
    /\ resizes > 0
    /\ lastCall = "ccCleanup"

\* C2: on every tick of the Animation Driver the Loop Clock lies in
\* [0, 45000) and is congruent to timestamp - start modulo the loop, also
\* when the timestamp is smaller than start; so t lies in [0, 45), and
\* adding one loop length to timestamp - start leaves the clock unchanged.
C2_LoopClockInRange ==
    frame # << >> =>
        LET x == frame.timestamp - frame.start
        IN  /\ frame.elapsed >= 0
            /\ frame.elapsed < TOTAL_DURATION
            /\ (x - frame.elapsed) % TOTAL_DURATION = 0
            /\ frame.t >= 0
            /\ frame.t < TOTAL * MsPerSec
            /\ wrapTime(x + TOTAL_DURATION, TOTAL_DURATION) = frame.elapsed
            /\ wrapTime(x - TOTAL_DURATION, TOTAL_DURATION) = frame.elapsed

\* A frame whose timestamp lies before the start the effect captured.
C2_Witness ==
    /\ frame # << >>
    /\ frame.timestamp < frame.start
    /\ frame.elapsed = TOTAL_DURATION - 16

\* C3: on every tick of the Timeline Overlay the elapsed value is a
\* non-negative Loop Clock in [0, 45), also when the callback timestamp
\* lies before the start captured at mount, so the fraction of the tracker
\* bar lies in [0, 1).
C3_ElapsedNonNegative ==
    hudTicks # << >> =>
        /\ elapsed >= 0
        /\ elapsed < TOTAL * MsPerSec
        /\ trackerWidth(elapsed).num >= 0
        /\ trackerWidth(elapsed).num < trackerWidth(elapsed).den

\* The place of a marker in TIMELINE.
MarkerIndex(m) == CHOOSE k \in 1..Len(TIMELINE) : TIMELINE[k] = m

\* The loop a timestamp of the overlay falls into, counted from its start.
LoopOf(time) == (time - hudStart) \div (TOTAL * MsPerSec)

\* C4: for every elapsed in [0, 45) the active marker is the last entry of
\* TIMELINE whose time is <= elapsed: the first for elapsed in [0, 5), the
\* second exactly from 5, the last from 38 up to the end of the loop.
\* From one tick to the next within one loop the active marker never moves
\* back in the list, and on the first tick of a new loop that comes before
\* the second marker's time it is the first marker again.
C4_ActiveMarker ==
    /\ (elapsed >= 0 /\ elapsed < TOTAL * MsPerSec) =>
          LET m == activeMarker(elapsed)
          IN  /\ \E k \in 1..Len(TIMELINE) : TIMELINE[k] = m
              /\ m.time * MsPerSec <= elapsed
              /\ \A k \in 1..Len(TIMELINE) :
                    TIMELINE[k].time * MsPerSec <= elapsed => k <= MarkerIndex(m)
              /\ elapsed < 5 * MsPerSec => m = TIMELINE[1]
              /\ (elapsed >= 5 * MsPerSec /\ elapsed < 12 * MsPerSec) => m = TIMELINE[2]
              /\ elapsed >= 38 * MsPerSec => m = TIMELINE[Len(TIMELINE)]
    /\ hudTicks # << >> =>
          /\ (/\ hudTicks.prevTime <= hudTicks.time
              /\ LoopOf(hudTicks.prevTime) = LoopOf(hudTicks.time)) =>
                 MarkerIndex(activeMarker(hudTicks.prev))
                      <= MarkerIndex(activeMarker(elapsed))
          /\ (/\ LoopOf(hudTicks.prevTime) < LoopOf(hudTicks.time)
              /\ elapsed < 5 * MsPerSec) =>
                 activeMarker(elapsed) = TIMELINE[1]

\* The overlay showed the last marker at 44.999 s and, one tick later, at
\* the wrap, shows the first marker again.
C4_Witness ==
    /\ hudTicks # << >>
    /\ hudTicks.prev = TOTAL * MsPerSec - 1
    /\ activeMarker(hudTicks.prev) = TIMELINE[6]
    /\ elapsed = 0
    /\ activeMarker(elapsed) = TIMELINE[1]

\* The record the pass of the given name left in the last frame's trace.
PassOf(name) ==
    LET k == CHOOSE i \in 1..Len(frame.trace) : frame.trace[i].pass = name
    IN  frame.trace[k]

PassOrder ==
    << "clearRect", "drawSkies", "drawCity", "drawShockwave", "drawArena",
       "drawPortals", "drawMonsters", "drawHero", "drawEnergyFlows",
       "drawForegroundEffects" >>

\* C5: every call of renderFrame first clears the surface and then runs
\* the nine draw passes once each in the order Sky, City, Shockwave, Arena,
\* Portals, Monsters, Hero, Energy Flows, Foreground Effects, at every t.
C5_PassOrder ==
    frame # << >> =>
        /\ Len(frame.trace) = Len(PassOrder)
        /\ \A i \in 1..Len(PassOrder) : frame.trace[i].pass = PassOrder[i]

\* A frame late in the loop, where every pass draws.
C5_Witness ==
    /\ frame # << >>
    /\ frame.t = 44 * MsPerSec
    /\ \A i \in 2..Len(frame.trace) : frame.trace[i].draws > 0

\* The time-windowed passes with the start and end of their windows.
Windows ==
    { << "drawShockwave", shockStart, shockEnd >>,
      << "drawArena", arenaStart, arenaEnd >>,
      << "drawPortals", portalStart, portalEnd >>,
      << "drawMonsters", monsterStart, monsterEnd >>,
      << "drawForegroundEffects", finaleStart, finaleStart + finaleSpan >> }

\* C6 as stated: a time-windowed pass issues no draw operation at any t
\* outside its window, before its start and after its end.
C6_NothingOutsideWindow ==
    frame # << >> =>
        \A w \in Windows :
            (frame.t < w[2] * MsPerSec \/ frame.t > w[3] * MsPerSec) =>
                PassOf(w[1]).draws = 0

\* C6 amended: a time-windowed pass issues no draw operation at any t
\* before its start; from its start on it draws at every t of the loop,
\* also after the end of its window, where its progress stays at 1.
C6_NothingBeforeStart ==
    frame # << >> =>
        \A w \in Windows :
            /\ frame.t < w[2] * MsPerSec => PassOf(w[1]).draws = 0
            /\ frame.t >= w[2] * MsPerSec => PassOf(w[1]).draws > 0
            /\ frame.t >= w[3] * MsPerSec =>
                  PassOf(w[1]).pnum = PassOf(w[1]).pden

\* A frame just after the end of the Shockwave window and before the start
\* of the Portals window: the Shockwave draws, the Portals do not.
C6_Witness ==
    /\ frame # << >>
    /\ frame.t = shockEnd * MsPerSec + 1
    /\ PassOf("drawShockwave").draws > 0
    /\ PassOf("drawPortals").draws = 0

\* C7: the radius factor of the hero's ball is 0 at t = 0, t / 5 on
\* [0, 5), exactly 1 on [5, 40) and 1 - (t - 40) / 5 on [40, 45); it is
\* always in [0, 1]; and the ball is drawn only when its radius is > 0.
C7_BallEnvelope ==
    frame # << >> =>
        LET hero == PassOf("drawHero")
            t == frame.t
        IN  /\ t = 0 => hero.pnum = 0
            /\ t < 5 * MsPerSec => hero.pnum * 5 * MsPerSec = t * hero.pden
            /\ (t >= 5 * MsPerSec /\ t < 40 * MsPerSec) => hero.pnum = hero.pden
            /\ t >= 40 * MsPerSec =>
                  hero.pnum * 5 * MsPerSec
                      = (5 * MsPerSec - (t - 40 * MsPerSec)) * hero.pden
            /\ hero.pnum >= 0
            /\ hero.pnum <= hero.pden
            /\ hero.ballDraws > 0 => hero.ballRadius > 0
            /\ hero.ballRadius > 0 <=> hero.pnum > 0

\* A frame one millisecond into the shrink: the factor is just below 1 and
\* the ball is drawn.
C7_Witness ==
    /\ frame # << >>
    /\ frame.t = shrinkStart * MsPerSec + 1
    /\ PassOf("drawHero").pnum = PassOf("drawHero").pden - 1
    /\ PassOf("drawHero").ballDraws > 0

\* C8: generateBuildings(count) returns exactly count Buildings, each with
\* a height in [0.3, 1.0) and a width in [0.03, 0.08) (in units of
\* 1/10000: [3000, 10000) and [300, 800)).
C8_BuildingsInBand ==
    /\ Len(buildings) = BuildingCount
    /\ \A k \in 1..Len(buildings) :
          /\ buildings[k].height >= 3000
          /\ buildings[k].height < 10000
          /\ buildings[k].width >= 300
          /\ buildings[k].width < 800

\* C9 as stated: while the driver is active the backing buffer of the
\* canvas is the viewport size times the device pixel ratio and the scale
\* of the context is the device pixel ratio.
C9_BufferIsViewportTimesRatio ==
    ccPhase = "active" =>
        /\ canvas.width * DprUnit = innerWidth * devicePixelRatio
        /\ canvas.height * DprUnit = innerHeight * devicePixelRatio
        /\ context.num * DprUnit = devicePixelRatio * context.den

\* C9 amended: while the driver is active, after the mount and after every
\* resize event, the backing buffer is the viewport size times the device
\* pixel ratio with the fraction dropped (the product itself when that is
\* whole), the scale of the context is exactly the current device pixel
\* ratio, whatever the earlier resizes were, and the client box a frame
\* is drawn over is the viewport.
C9_BufferIsTruncatedProduct ==
    ccPhase = "active" =>
        /\ canvas.width * DprUnit <= innerWidth * devicePixelRatio
        /\ innerWidth * devicePixelRatio < (canvas.width + 1) * DprUnit
        /\ canvas.height * DprUnit <= innerHeight * devicePixelRatio
        /\ innerHeight * devicePixelRatio < (canvas.height + 1) * DprUnit
        /\ context.num * DprUnit = devicePixelRatio * context.den
        /\ canvas.clientWidth = innerWidth
        /\ canvas.clientHeight = innerHeight
        /\ lastCall = "draw" => frame.clientBox = << innerWidth, innerHeight >>

\* The driver drew a frame after the second of two resize events, the last
\* one to 375 x 667 at ratio 2.
C9_Witness ==
    /\ ccPhase = "active"
    /\ resizes >= 2
    /\ lastCall = "draw"
    /\ devicePixelRatio = 8
    /\ canvas.width = 750
    /\ canvas.height = 1334

\* C10: if the canvas element or its 2D context is unavailable, the
\* Animation Driver does nothing, at activation and ever after: no resize
\* listener is registered, no frame callback is scheduled or held, the
\* canvas and its context are untouched, no frame is drawn, and the
\* teardown finds nothing to cancel.
C10_NoSurfaceNoWork ==
    surface # "ok" =>
        /\ ccPhase \in { "unmounted", "inert", "torn" }
        /\ "handleResize" \notin listeners
        /\ DrawCallbacks = {}
        /\ animationFrame = 0
        /\ canvas = DefaultCanvas
        /\ context = Identity
        /\ frame = << >>
        /\ lastCall \notin { "draw", "handleResize" }

\* The effect ran without a 2D context and was torn down, after a resize
\* event, while the overlay kept running.
C10_Witness ==
    /\ surface = "noContext"
    /\ ccPhase = "torn"
    /\ resizes > 0
    /\ lastCall = "ccCleanup"
    /\ hudPhase = "active"
    /\ LoopCallbacks # {}

\* C11: the building and billboard layouts are generated once per
\* CinematicCanvas and never again: after every frame, resize event and
\* re-render the two memos still hold the first array their generator handed
\* out, of 45 and 6 entries with every field as generated, and the body of
\* the driver's effect has run at most once, so no re-render tore the loop
\* down and restarted it.
C11_LayoutGeneratedOnce ==
    /\ layoutRef = [ buildings |-> 1, billboards |-> 1 ]
    /\ Len(buildings) = 45
    /\ Len(billboards) = 6
    /\ buildings = generateBuildings(BuildingCount)
    /\ billboards = generateBillboards
    /\ effectRuns <= 1
    /\ ccPhase = "unmounted" <=> effectRuns = 0

C11_Witness ==
    /\ lastCall = "render"
    /\ ccPhase = "active"
    /\ effectRuns = 1
    /\ resizes > 0
    /\ frame # << >>
    /\ frame.trace[3].draws > 0
    /\ devicePixelRatio = 4
    /\ hudPhase = "active"

\* The progress fractions a pass used in the last frame: that of the pass
\* and, for Portals and Monsters, that of each of its items.
ProgressesOf(p) ==
    { [ num |-> p.pnum, den |-> p.pden ] }
        \cup (IF "items" \in DOMAIN p
              THEN { p.items[i] : i \in DOMAIN p.items } ELSE { })

\* C12: at every t of the loop and for every time-windowed pass: before
\* the start of its window the pass draws nothing; at the start it draws
\* and every progress it uses, that of each portal and each monster
\* included, is 0 (the Shockwave's radius is 0); every progress lies in
\* [0, 1]; and from the end of the window on every progress is 1 (the
\* Shockwave's radius is 1.2 x max(width, height) at t = 11, each portal is
\* at 1 at t = 31 and each monster at t = 44).
C12_WindowProgress ==
    frame # << >> =>
        \A w \in Windows :
            LET p == PassOf(w[1])
                t == frame.t
            IN  /\ t < w[2] * MsPerSec => p.draws = 0
                /\ t = w[2] * MsPerSec =>
                      /\ p.draws > 0
                      /\ \A q \in ProgressesOf(p) : q.num = 0
                      /\ w[1] = "drawShockwave" => p.radius = 0
                /\ \A q \in ProgressesOf(p) : q.num >= 0 /\ q.num <= q.den
                /\ t >= w[3] * MsPerSec =>
                      /\ \A q \in ProgressesOf(p) : q.num = q.den
                      /\ w[1] = "drawShockwave" =>
                            p.radius = 12 * Max(frame.clientBox[1],
                                                frame.clientBox[2]) * EaseUnit

\* C13: every draw pass leaves the drawing state as it found it.  In every
\* frame each step of renderFrame makes as many restore() as save() calls,
\* on the early returns and on the lightning branch as well, and the
\* drawing state after it (transformation, globalAlpha,
\* globalCompositeOperation and the stack of saved states, so also its
\* depth) equals the state before it; so the state after renderFrame is the
\* state before it, and the context is left in it.
C13_StateRestored ==
    frame # << >> =>
        /\ \A i \in 1..Len(frame.state) :
              /\ frame.state[i].saves = frame.state[i].restores
              /\ frame.state[i].after = frame.state[i].before
              /\ Len(frame.state[i].after.stack) = Len(frame.state[i].before.stack)
        /\ frame.state[Len(frame.state)].after = frame.state[1].before
        /\ lastCall = "draw" => drawState = frame.state[1].before

\* A frame at t = 44 with the brightest lightning: the passes that save
\* state have all done so, the lightning branch included, and the context
\* is back in its state of before the frame.
C13_Witness ==
    /\ frame # << >>
    /\ frame.t = 44 * MsPerSec
    /\ PassOf("drawHero").draws >= 12
    /\ \A n \in { "drawCity", "drawArena", "drawPortals", "drawMonsters",
                   "drawHero", "drawForegroundEffects" } :
          \E i \in 1..Len(frame.state) :
              frame.state[i].pass = n /\ frame.state[i].saves > 0
    /\ drawState = DefaultDrawState

====
